---- MODULE Spec2Model ----
(***************************************************************************)
(* pdf-text-searcher.py: a Tk front end that indexes the PDF files of a    *)
(* directory into a Whoosh index (index_pdfs) and searches it              *)
(* (search_index), each on a daemon worker thread started from the GUI.    *)
(*                                                                         *)
(* The model has one slot per worker thread.  The Tk main thread runs the  *)
(* GUI handlers (start_indexing_thread, start_search_thread,               *)
(* _enable_buttons); each worker runs index_pdfs or search_index, one      *)
(* atomic step per access to the shared index directory.  Steps that only  *)
(* touch a thread's own locals are merged with their neighbours.           *)
(*                                                                         *)
(* Text is a sequence of tokens.  The Whoosh index is the committed list   *)
(* of stored documents (the segments named by the latest TOC file); a      *)
(* writer holds the WRITELOCK file lock, a copy of the segment list, the   *)
(* paths deleted from it and the pool of newly added documents.            *)
(***************************************************************************)
EXTENDS Integers, Sequences, FiniteSets, TLC

\* ------------------------------------------------------------------ bounds
NumThreads == 2        \* worker threads alive at the same time
MaxPending == 1        \* _enable_buttons callbacks waiting in the Tk queue
MaxIndexRuns == 2      \* indexing threads the user starts in one run of the program
MaxSearches == 1       \* search threads the user starts in one run of the program
MaxRankDocs == 52      \* documents of the index a ranking run searches

\* searcher.search(query, limit=50) (line 137)
SearchLimit == 50

Threads == 1..NumThreads

\* ------------------------------------------------------------ the inputs
SP == " "

\* The PDF files a books directory can hold (full_path, line 85).
Paths == {"a.pdf", "b.pdf"}

\* The file name of a path (filename, lines 84-85).
Filename(p) == p

\* What PdfReader can extract from a file (lines 88-93): token sequences.
Texts == { <<"The", "Foxes">>, <<"feet">> }

\* What the user can have typed into search_entry.
Entries == { <<>>, <<SP>>, <<"The">>, <<SP, "Foxes", SP>>, <<"*">> }

\* os.listdir order of the PDF files of a directory (line 81).
Listings == { <<>>, <<"a.pdf">>, <<"a.pdf", "b.pdf">> }

\* --------------------------------------------------------- normalize_text
\* token.lower() (line 47)
Lower(tok) ==
    CASE tok = "The"   -> "the"
      [] tok = "Foxes" -> "foxes"
      [] OTHER         -> tok

\* PorterStemmer.stem (line 49)
Stem(tok) ==
    CASE tok = "foxes" -> "fox"
      [] OTHER         -> tok

\* WordNetLemmatizer.lemmatize (line 51)
Lemmatize(tok) ==
    CASE tok = "feet" -> "foot"
      [] OTHER        -> tok

\* word_tokenize (line 40): the tokens between white space.
word_tokenize(text) == SelectSeq(text, LAMBDA x : x # SP)

\* normalize_text (lines 29-54): tokenize, lowercase, stem, lemmatize.
normalize_text(text) ==
    LET tokens == word_tokenize(text)
    IN  [i \in 1..Len(tokens) |-> Lemmatize(Stem(Lower(tokens[i])))]

\* str.strip() (line 243): drop leading and trailing white space.
RECURSIVE lstrip(_)
lstrip(s) == IF s # <<>> /\ Head(s) = SP THEN lstrip(Tail(s)) ELSE s

RECURSIVE rstrip(_)
rstrip(s) ==
    IF s # <<>> /\ s[Len(s)] = SP THEN rstrip(SubSeq(s, 1, Len(s) - 1)) ELSE s

strip(s) == rstrip(lstrip(s))

\* ------------------------------------------------- the schema (lines 23-27)
\* content=TEXT(...): Whoosh's StandardAnalyzer drops stop words and the
\* tokens its word pattern does not match.
STOP_WORDS == {"the"}
NonWords == {"!"}

Analyze(tokens) == SelectSeq(tokens, LAMBDA x : x \notin STOP_WORDS \cup NonWords)

\* QueryParser's WildcardPlugin: the query text "*" is the Every query of the
\* field, which holds no term.
WILDCARD == "*"

SeqToSet(s) == {s[i] : i \in 1..Len(s)}

\* A stored document (writer.update_document's fields, lines 97-101).
Document(p, text) ==
    [path |-> p, filename |-> Filename(p), content |-> normalize_text(text)]

\* -------------------------------------------------------------- the state
VARIABLES
    dirExists,        \* os.path.exists(INDEX_DIR)
    indexExists,      \* the index directory holds a TOC file
    committed,        \* the documents of the latest TOC, in docnum order
    writelock,        \* the thread holding the index's WRITELOCK, or 0
    lastUpdate,       \* per path, the content of its latest committed update
    index_button,     \* state of the Index button
    search_button,    \* state of the Search button
    indexRuns,        \* number of indexing threads started so far
    searches,         \* number of search threads started so far
    gui_status,       \* last status set by a GUI handler
    pendingEnable,    \* _enable_buttons callbacks queued by root.after
    pc,               \* per thread, where it is in index_pdfs / search_index
    files,            \* all_files
    idx,              \* number of files the loop has finished
    indexed_files,
    error_files,
    writer_base,      \* the segment list the writer read when it was opened
    writer_deleted,   \* paths the writer has deleted from that list
    writer_pool,      \* documents the writer has added
    status,           \* per thread, the last status_callback message
    raised,           \* per thread, the exception that escaped, or "none"
    query,            \* query_string
    snapshot,         \* the documents the searcher reads
    callbacks,        \* per thread, number of results_callback calls
    delivered         \* per thread, the list given to results_callback

gui == <<index_button, search_button, indexRuns, searches, gui_status,
        pendingEnable>>
store == <<dirExists, indexExists, committed, writelock, lastUpdate>>
indexer == <<files, idx, indexed_files, error_files, writer_base,
             writer_deleted, writer_pool>>
searcher == <<query, snapshot, callbacks, delivered>>
vars == <<gui, store, indexer, searcher, pc, status, raised>>

\* lastUpdate of a path no committed session has updated.
NoUpdate == <<"-">>

NoStatus == [kind |-> "none", doc |-> ""]
Msg(k) == [kind |-> k, doc |-> ""]
DocMsg(k, p) == [kind |-> k, doc |-> p]

\* status_callback(..., error=True)
ErrorKinds == {"books_not_found", "no_text", "error_indexing", "fatal",
               "index_unavailable", "search_error", "enter_query"}

Init ==
    /\ dirExists = FALSE
    /\ indexExists = FALSE
    /\ committed = <<>>
    /\ writelock = 0
    /\ lastUpdate = [p \in Paths |-> NoUpdate]
    /\ index_button = "normal"
    /\ search_button = "normal"
    /\ indexRuns = 0
    /\ searches = 0
    /\ gui_status = Msg("ready")
    /\ pendingEnable = 0
    /\ pc = [t \in Threads |-> "idle"]
    /\ files = [t \in Threads |-> <<>>]
    /\ idx = [t \in Threads |-> 0]
    /\ indexed_files = [t \in Threads |-> 0]
    /\ error_files = [t \in Threads |-> 0]
    /\ writer_base = [t \in Threads |-> <<>>]
    /\ writer_deleted = [t \in Threads |-> {}]
    /\ writer_pool = [t \in Threads |-> <<>>]
    /\ status = [t \in Threads |-> NoStatus]
    /\ raised = [t \in Threads |-> "none"]
    /\ query = [t \in Threads |-> <<>>]
    /\ snapshot = [t \in Threads |-> <<>>]
    /\ callbacks = [t \in Threads |-> 0]
    /\ delivered = [t \in Threads |-> <<>>]


\* ---------------------------------------------------------- Whoosh calls
\* (mutant) a reader that also sees the documents an open writer has added.
ReadTocLive ==
    IF writelock = 0 THEN committed ELSE committed \o writer_pool[writelock]

\* open_dir / FileIndex.reader / SegmentWriter.__init__: the segment list
\* named by the latest TOC file.
ReadToc == committed

\* (mutant) a writer that does not look at the lock.
LockFreeAlways == TRUE

\* try_lock on the index's WRITELOCK file (ix.writer, line 76).
LockFree == writelock = 0

\* writer.update_document (lines 97-101) on the writer's deleted set: path is
\* ID(unique=True), so the documents with this path are deleted first.
DeleteByPath(deleted, p) == deleted \cup {p}

\* What writer.commit() publishes (line 110): the segments the writer
\* opened on, without the deleted documents, followed by the added ones.
Merge(base, deleted, pool) ==
    SelectSeq(base, LAMBDA d : d.path \notin deleted) \o pool

\* What writer.cancel() leaves published (line 114).
Cancelled == committed

\* QueryParser("content", ix.schema).parse (lines 133-135): the terms the
\* content field's analyzer keeps and the wildcards, joined by AND; none is
\* the null query.
Parse(normalized) ==
    SelectSeq(normalized,
              LAMBDA x : x = WILDCARD \/ x \notin STOP_WORDS \cup NonWords)

\* The terms of a parsed query (Query.existing_terms): Every holds none.
QueryTerms(leaves) == {x \in SeqToSet(leaves) : x # WILDCARD}

\* (mutant) the query is parsed as typed, without normalize_text.
ParsedQueryRaw(q) == Parse(word_tokenize(q))

\* lines 132-135
ParsedQuery(q) == Parse(normalize_text(q))

\* (mutant) a query without terms matches every document.
MatchesNullAll(doc, terms) ==
    /\ QueryTerms(terms) \subseteq SeqToSet(Analyze(doc.content))
    /\ WILDCARD \in SeqToSet(terms) => Analyze(doc.content) # <<>>

\* searcher.search (line 137): the documents holding every term of the
\* query; Every matches the documents that hold a term in the field.
Matches(doc, terms) ==
    /\ terms # <<>>
    /\ QueryTerms(terms) \subseteq SeqToSet(Analyze(doc.content))
    /\ WILDCARD \in SeqToSet(terms) => Analyze(doc.content) # <<>>

search(snap, terms) == SelectSeq(snap, LAMBDA d : Matches(d, terms))

\* hit.score (line 146).  Whoosh's BM25F weight is stood in for by the number
\* of occurrences of the query's terms in the document; Every weighs 1.
RECURSIVE Score(_, _)
Score(doc, terms) ==
    IF terms = <<>> THEN 0
    ELSE (IF Head(terms) = WILDCARD THEN 1
          ELSE Len(SelectSeq(Analyze(doc.content),
                             LAMBDA x : x = Head(terms))))
         + Score(doc, Tail(terms))

\* The hits of a query: the matching documents in docnum order, each with
\* its score.
Scored(docs, terms) ==
    [i \in 1..Len(docs) |-> [doc |-> docs[i], score |-> Score(docs[i], terms)]]

\* The hit the collector ranks first: the highest score, the lowest docnum
\* among equal scores.
Best(hits) ==
    CHOOSE i \in 1..Len(hits) :
        \A j \in 1..Len(hits) :
            \/ hits[j].score < hits[i].score
            \/ hits[j].score = hits[i].score /\ i <= j

Remove(s, i) == SubSeq(s, 1, i - 1) \o SubSeq(s, i + 1, Len(s))

\* (mutant) the first `limit` hits in docnum order.
TopHitsUnsorted(hits, limit) ==
    SubSeq(hits, 1, IF Len(hits) < limit THEN Len(hits) ELSE limit)

\* Results of searcher.search(query, limit=...) (line 137): the `limit` best
\* hits, best first.
RECURSIVE TopHits(_, _)
TopHits(hits, limit) ==
    IF hits = <<>> \/ limit = 0 THEN <<>>
    ELSE <<hits[Best(hits)]>> \o TopHits(Remove(hits, Best(hits)), limit - 1)

\* hit.highlights("content", top=1) (line 142): the best fragment of the
\* stored content, here its tokens that are terms of the query; empty when
\* the stored content holds none.
highlights(doc, terms) ==
    SelectSeq(doc.content, LAMBDA x : x \in QueryTerms(terms))

\* line 147
NoSnippet == <<"[No relevant snippet found]">>

\* (mutant) the highlighter's output is delivered as it is.
results_listRaw(hits, terms) ==
    [i \in 1..Len(hits) |->
        [filename |-> hits[i].doc.filename, path |-> hits[i].doc.path,
         score |-> hits[i].score,
         highlight |-> highlights(hits[i].doc, terms)]]

\* lines 141-148
results_list(hits, terms) ==
    [i \in 1..Len(hits) |->
        [filename |-> hits[i].doc.filename, path |-> hits[i].doc.path,
         score |-> hits[i].score,
         highlight |-> IF highlights(hits[i].doc, terms) # <<>>
                       THEN highlights(hits[i].doc, terms)
                       ELSE NoSnippet]]

\* -------------------------------------------------------- the GUI thread
IsFree(t) == pc[t] = "idle" /\ \A u \in Threads : u < t => pc[u] # "idle"

\* start_indexing_thread (lines 226-232), the Index button's command, for a
\* user who starts at most `cap` indexing runs.
StartIndexing(cap) ==
    /\ index_button = "normal"
    /\ indexRuns < cap
    /\ \E t \in Threads :
         /\ IsFree(t)
         /\ pc' = [pc EXCEPT ![t] = "ix_start"]
    /\ indexRuns' = indexRuns + 1
    /\ gui_status' = Msg("starting_indexing")
    /\ index_button' = "disabled"
    /\ search_button' = "disabled"
    /\ UNCHANGED <<searches, pendingEnable, store, indexer, searcher, status,
                   raised>>

start_indexing_thread == StartIndexing(MaxIndexRuns)

\* start_search_thread (lines 241-251), with search_entry holding `entry`.
start_search_thread(entry) ==
    LET q == strip(entry)
    IN  IF q = <<>>
        THEN /\ gui_status' = Msg("enter_query")
             /\ UNCHANGED <<index_button, search_button, indexRuns, searches,
                            pendingEnable, store, indexer, searcher, pc,
                            status, raised>>
        ELSE /\ searches < MaxSearches
             /\ \E t \in Threads :
                  /\ IsFree(t)
                  /\ pc' = [pc EXCEPT ![t] = "s_open"]
                  /\ query' = [query EXCEPT ![t] = q]
             /\ searches' = searches + 1
             /\ gui_status' = Msg("starting_search")
             /\ index_button' = "disabled"
             /\ search_button' = "disabled"
             /\ UNCHANGED <<indexRuns, pendingEnable, store, indexer,
                            snapshot, callbacks, delivered, status, raised>>

\* The Search button's command (line 177): only an enabled button fires.
ClickSearch ==
    /\ search_button = "normal"
    /\ \E e \in Entries : start_search_thread(e)

\* <Return> in the search entry (line 176): bound to the entry, whatever the
\* state of the buttons.
PressReturn == \E e \in Entries : start_search_thread(e)

\* _enable_buttons (lines 260-263), run by the Tk loop from root.after.
enable_buttons ==
    /\ pendingEnable > 0
    /\ pendingEnable' = pendingEnable - 1
    /\ index_button' = "normal"
    /\ search_button' = "normal"
    /\ UNCHANGED <<indexRuns, searches, gui_status, store, indexer, searcher,
                   pc, status, raised>>

\* ------------------------------------------------------------ index_pdfs
Goto(t, l) == pc' = [pc EXCEPT ![t] = l]
Say(t, m) == status' = [status EXCEPT ![t] = m]

\* lines 72-74: the books directory is missing.
IndexBooksDirMissing(t) ==
    /\ pc[t] = "ix_start"
    /\ Say(t, Msg("books_not_found"))
    /\ Goto(t, "ix_finally")
    /\ UNCHANGED <<gui, store, indexer, searcher, raised>>

\* lines 72, 75, 58: create_or_open_index looks for the index directory.
IndexCheckDir(t) ==
    /\ pc[t] = "ix_start"
    /\ Goto(t, IF dirExists THEN "ix_open" ELSE "ix_makedirs")
    /\ UNCHANGED <<gui, store, indexer, searcher, status, raised>>

\* line 59: os.makedirs raises FileExistsError when another thread made the
\* directory since line 58; the exception escapes index_pdfs.
IndexMakedirs(t) ==
    /\ pc[t] = "ix_makedirs"
    /\ IF dirExists
       THEN /\ raised' = [raised EXCEPT ![t] = "FileExistsError"]
            /\ Goto(t, "ix_finally")
            /\ UNCHANGED dirExists
       ELSE /\ dirExists' = TRUE
            /\ Goto(t, "ix_open")
            /\ UNCHANGED raised
    /\ UNCHANGED <<gui, indexExists, committed, writelock, lastUpdate,
                   indexer, searcher, status>>

\* lines 60-62: open_dir, or EmptyIndexError when there is no TOC.
IndexOpenDir(t) ==
    /\ pc[t] = "ix_open"
    /\ Goto(t, IF indexExists THEN "ix_writer" ELSE "ix_create")
    /\ UNCHANGED <<gui, store, indexer, searcher, status, raised>>

\* line 63: create_in writes a first TOC with no segments, clearing the TOC
\* files the directory holds.
IndexCreateIn(t) ==
    /\ pc[t] = "ix_create"
    /\ indexExists' = TRUE
    /\ committed' = <<>>
    /\ Goto(t, "ix_writer")
    /\ UNCHANGED <<gui, dirExists, writelock, lastUpdate, indexer, searcher,
                   status, raised>>

\* line 76: ix.writer takes the write lock and reads the TOC, or raises
\* LockError at once; the exception escapes index_pdfs.
IndexWriter(t) ==
    /\ pc[t] = "ix_writer"
    /\ IF LockFree
       THEN /\ writelock' = t
            /\ writer_base' = [writer_base EXCEPT ![t] = ReadToc]
            /\ Goto(t, "ix_list")
            /\ UNCHANGED raised
       ELSE /\ raised' = [raised EXCEPT ![t] = "LockError"]
            /\ Goto(t, "ix_finally")
            /\ UNCHANGED <<writelock, writer_base>>
    /\ UNCHANGED <<gui, dirExists, indexExists, committed, lastUpdate, files,
                   idx, indexed_files, error_files, writer_deleted,
                   writer_pool, searcher, status>>

\* lines 80-83: the PDF files of the books directory.
IndexList(t) ==
    /\ pc[t] = "ix_list"
    /\ \E l \in Listings : files' = [files EXCEPT ![t] = l]
    /\ Say(t, Msg("found"))
    /\ Goto(t, "ix_loop")
    /\ UNCHANGED <<gui, store, idx, indexed_files, error_files, writer_base,
                   writer_deleted, writer_pool, searcher, raised>>

\* (mutant) the handler reports the error and leaves the writer open.
FatalNoCancel(t) ==
    /\ Say(t, Msg("fatal"))
    /\ Goto(t, "ix_finally")
    /\ UNCHANGED <<gui, store, indexer, searcher, raised>>

\* lines 112-114: the handler of a fatal error cancels the writer.
Fatal(t) ==
    /\ Say(t, Msg("fatal"))
    /\ committed' = Cancelled
    /\ writelock' = 0
    /\ writer_deleted' = [writer_deleted EXCEPT ![t] = {}]
    /\ writer_pool' = [writer_pool EXCEPT ![t] = <<>>]
    /\ Goto(t, "ix_finally")
    /\ UNCHANGED <<gui, dirExists, indexExists, lastUpdate, files, idx,
                   indexed_files, error_files, writer_base, searcher, raised>>

\* line 81: os.listdir raises.
IndexListFail(t) ==
    /\ pc[t] = "ix_list"
    /\ Fatal(t)

\* lines 84-102: a file with text is normalized and staged.
IndexDocOk(t) ==
    /\ pc[t] = "ix_loop"
    /\ idx[t] < Len(files[t])
    /\ LET p == files[t][idx[t] + 1]
       IN  /\ \E text \in Texts :
                writer_pool' = [writer_pool EXCEPT ![t] = @ \o <<Document(p, text)>>]
           /\ writer_deleted' = [writer_deleted EXCEPT ![t] = DeleteByPath(@, p)]
           /\ Say(t, DocMsg("indexing", p))
    /\ indexed_files' = [indexed_files EXCEPT ![t] = @ + 1]
    /\ idx' = [idx EXCEPT ![t] = @ + 1]
    /\ UNCHANGED <<gui, store, files, error_files, writer_base, searcher, pc,
                   raised>>

\* (mutant) skipping a file also deletes the document indexed for its path.
IndexDocSkipDeletes(t) ==
    /\ pc[t] = "ix_loop"
    /\ idx[t] < Len(files[t])
    /\ Say(t, DocMsg("no_text", files[t][idx[t] + 1]))
    /\ writer_deleted' =
         [writer_deleted EXCEPT ![t] = DeleteByPath(@, files[t][idx[t] + 1])]
    /\ error_files' = [error_files EXCEPT ![t] = @ + 1]
    /\ idx' = [idx EXCEPT ![t] = @ + 1]
    /\ UNCHANGED <<gui, store, files, indexed_files, writer_base,
                   writer_pool, searcher, pc, raised>>

\* lines 84-94, 103-105: a file without text is skipped.
IndexDocSkip(t) ==
    /\ pc[t] = "ix_loop"
    /\ idx[t] < Len(files[t])
    /\ Say(t, DocMsg("no_text", files[t][idx[t] + 1]))
    /\ error_files' = [error_files EXCEPT ![t] = @ + 1]
    /\ idx' = [idx EXCEPT ![t] = @ + 1]
    /\ UNCHANGED <<gui, store, files, indexed_files, writer_base,
                   writer_deleted, writer_pool, searcher, pc, raised>>

\* (mutant) a failing file is handled as a fatal error.
IndexDocErrorAborts(t) ==
    /\ pc[t] = "ix_loop"
    /\ idx[t] < Len(files[t])
    /\ Fatal(t)

\* (mutant) the file is counted as indexed before update_document raises.
IndexDocErrorCountsBoth(t) ==
    /\ pc[t] = "ix_loop"
    /\ idx[t] < Len(files[t])
    /\ Say(t, DocMsg("error_indexing", files[t][idx[t] + 1]))
    /\ indexed_files' = [indexed_files EXCEPT ![t] = @ + 1]
    /\ error_files' = [error_files EXCEPT ![t] = @ + 1]
    /\ idx' = [idx EXCEPT ![t] = @ + 1]
    /\ UNCHANGED <<gui, store, files, writer_base, writer_deleted,
                   writer_pool, searcher, pc, raised>>

\* lines 106-108: PdfReader, extract_text, normalize_text or update_document
\* raises; nothing is staged for the file.
IndexDocError(t) ==
    /\ pc[t] = "ix_loop"
    /\ idx[t] < Len(files[t])
    /\ Say(t, DocMsg("error_indexing", files[t][idx[t] + 1]))
    /\ error_files' = [error_files EXCEPT ![t] = @ + 1]
    /\ idx' = [idx EXCEPT ![t] = @ + 1]
    /\ UNCHANGED <<gui, store, files, indexed_files, writer_base,
                   writer_deleted, writer_pool, searcher, pc, raised>>

\* lines 109-111: commit publishes the new TOC and releases the lock.
IndexCommit(t) ==
    /\ pc[t] = "ix_loop"
    /\ idx[t] = Len(files[t])
    /\ committed' = Merge(writer_base[t], writer_deleted[t], writer_pool[t])
    /\ lastUpdate' = [p \in Paths |->
         IF \E i \in 1..Len(writer_pool[t]) : writer_pool[t][i].path = p
         THEN (CHOOSE d \in SeqToSet(writer_pool[t]) : d.path = p).content
         ELSE lastUpdate[p]]
    /\ writelock' = 0
    /\ Say(t, Msg("complete"))
    /\ Goto(t, "ix_finally")
    /\ UNCHANGED <<gui, dirExists, indexExists, indexer, searcher, raised>>

\* lines 110, 112-114: commit raises.
IndexCommitFail(t) ==
    /\ pc[t] = "ix_loop"
    /\ idx[t] = Len(files[t])
    /\ Fatal(t)

\* (mutant) the callback is scheduled after index_pdfs has returned, not in
\* a finally: an exception that escapes index_pdfs skips it.
IndexFinallyOnReturn(t) ==
    /\ pc[t] = "ix_finally"
    /\ pendingEnable < MaxPending
    /\ pendingEnable' = IF raised[t] = "none" THEN pendingEnable + 1
                        ELSE pendingEnable
    /\ Goto(t, "idle")
    /\ files' = [files EXCEPT ![t] = <<>>]
    /\ idx' = [idx EXCEPT ![t] = 0]
    /\ indexed_files' = [indexed_files EXCEPT ![t] = 0]
    /\ error_files' = [error_files EXCEPT ![t] = 0]
    /\ writer_base' = [writer_base EXCEPT ![t] = <<>>]
    /\ writer_deleted' = [writer_deleted EXCEPT ![t] = {}]
    /\ writer_pool' = [writer_pool EXCEPT ![t] = <<>>]
    /\ Say(t, NoStatus)
    /\ raised' = [raised EXCEPT ![t] = "none"]
    /\ UNCHANGED <<index_button, search_button, indexRuns, searches,
                   gui_status, store, searcher>>

\* _run_indexing's finally (lines 238-239): the thread ends.
IndexFinally(t) ==
    /\ pc[t] = "ix_finally"
    /\ pendingEnable < MaxPending
    /\ pendingEnable' = pendingEnable + 1
    /\ Goto(t, "idle")
    /\ files' = [files EXCEPT ![t] = <<>>]
    /\ idx' = [idx EXCEPT ![t] = 0]
    /\ indexed_files' = [indexed_files EXCEPT ![t] = 0]
    /\ error_files' = [error_files EXCEPT ![t] = 0]
    /\ writer_base' = [writer_base EXCEPT ![t] = <<>>]
    /\ writer_deleted' = [writer_deleted EXCEPT ![t] = {}]
    /\ writer_pool' = [writer_pool EXCEPT ![t] = <<>>]
    /\ Say(t, NoStatus)
    /\ raised' = [raised EXCEPT ![t] = "none"]
    /\ UNCHANGED <<index_button, search_button, indexRuns, searches,
                   gui_status, store, searcher>>

\* ---------------------------------------------------------- search_index
Deliver(t, l) ==
    /\ callbacks' = [callbacks EXCEPT ![t] = @ + 1]
    /\ delivered' = [delivered EXCEPT ![t] = l]

\* (mutant) a search that finds no index creates an empty one.
SearchOpenMissingCreates(t) ==
    /\ pc[t] = "s_open"
    /\ ~indexExists
    /\ dirExists' = TRUE
    /\ indexExists' = TRUE
    /\ committed' = <<>>
    /\ Say(t, Msg("index_unavailable"))
    /\ Deliver(t, <<>>)
    /\ Goto(t, "s_finally")
    /\ UNCHANGED <<gui, writelock, lastUpdate, indexer, query, snapshot,
                   raised>>

\* lines 122-127: open_dir raises EmptyIndexError.
SearchOpenMissing(t) ==
    /\ pc[t] = "s_open"
    /\ ~indexExists
    /\ Say(t, Msg("index_unavailable"))
    /\ Deliver(t, <<>>)
    /\ Goto(t, "s_finally")
    /\ UNCHANGED <<gui, store, indexer, query, snapshot, raised>>

\* line 123: open_dir finds a TOC.
SearchOpenDir(t) ==
    /\ pc[t] = "s_open"
    /\ indexExists
    /\ Goto(t, "s_searcher")
    /\ UNCHANGED <<gui, store, indexer, searcher, status, raised>>

\* line 130: ix.searcher() reads the latest TOC and opens its segments.
SearcherOpen(t) ==
    /\ pc[t] = "s_searcher"
    /\ snapshot' = [snapshot EXCEPT ![t] = ReadToc]
    /\ Goto(t, "s_run")
    /\ UNCHANGED <<gui, store, indexer, query, callbacks, delivered, status,
                   raised>>

\* lines 132-149: the query runs on the searcher's segments.
SearchRun(t) ==
    /\ pc[t] = "s_run"
    /\ Say(t, Msg("found_results"))
    /\ Deliver(t, results_list(TopHits(Scored(search(snapshot[t],
                                                    ParsedQuery(query[t])),
                                             ParsedQuery(query[t])),
                                      SearchLimit),
                              ParsedQuery(query[t])))
    /\ Goto(t, "s_finally")
    /\ UNCHANGED <<gui, store, indexer, query, snapshot, raised>>

\* (mutant) a failed search clears the index.
SearchFailRecreates(t) ==
    /\ pc[t] \in {"s_searcher", "s_run"}
    /\ committed' = <<>>
    /\ Say(t, Msg("search_error"))
    /\ Deliver(t, <<>>)
    /\ Goto(t, "s_finally")
    /\ UNCHANGED <<gui, dirExists, indexExists, writelock, lastUpdate,
                   indexer, query, snapshot, raised>>

\* (mutant) the handler delivers the list built so far.
SearchFailPartial(t) ==
    /\ pc[t] \in {"s_searcher", "s_run"}
    /\ Say(t, Msg("search_error"))
    /\ Deliver(t, results_list(Scored(search(snapshot[t], ParsedQuery(query[t])),
                                      ParsedQuery(query[t])),
                               ParsedQuery(query[t])))
    /\ Goto(t, "s_finally")
    /\ UNCHANGED <<gui, store, indexer, query, snapshot, raised>>

\* lines 150-152: opening the searcher, parsing, searching or highlighting
\* raises.
SearchFail(t) ==
    /\ pc[t] \in {"s_searcher", "s_run"}
    /\ Say(t, Msg("search_error"))
    /\ Deliver(t, <<>>)
    /\ Goto(t, "s_finally")
    /\ UNCHANGED <<gui, store, indexer, query, snapshot, raised>>

\* lines 153-155 and _run_search's finally (lines 257-258).
SearchFinally(t) ==
    /\ pc[t] = "s_finally"
    /\ pendingEnable < MaxPending
    /\ pendingEnable' = pendingEnable + 1
    /\ Goto(t, "idle")
    /\ query' = [query EXCEPT ![t] = <<>>]
    /\ snapshot' = [snapshot EXCEPT ![t] = <<>>]
    /\ callbacks' = [callbacks EXCEPT ![t] = 0]
    /\ delivered' = [delivered EXCEPT ![t] = <<>>]
    /\ Say(t, NoStatus)
    /\ UNCHANGED <<index_button, search_button, indexRuns, searches,
                   gui_status, store, indexer, raised>>

Next ==
    \/ start_indexing_thread
    \/ ClickSearch
    \/ PressReturn
    \/ enable_buttons
    \/ \E t \in Threads : IndexBooksDirMissing(t)
    \/ \E t \in Threads : IndexCheckDir(t)
    \/ \E t \in Threads : IndexMakedirs(t)
    \/ \E t \in Threads : IndexOpenDir(t)
    \/ \E t \in Threads : IndexCreateIn(t)
    \/ \E t \in Threads : IndexWriter(t)
    \/ \E t \in Threads : IndexList(t)
    \/ \E t \in Threads : IndexListFail(t)
    \/ \E t \in Threads : IndexDocOk(t)
    \/ \E t \in Threads : IndexDocSkip(t)
    \/ \E t \in Threads : IndexDocError(t)
    \/ \E t \in Threads : IndexCommit(t)
    \/ \E t \in Threads : IndexCommitFail(t)
    \/ \E t \in Threads : IndexFinally(t)
    \/ \E t \in Threads : SearchOpenMissing(t)
    \/ \E t \in Threads : SearchOpenDir(t)
    \/ \E t \in Threads : SearcherOpen(t)
    \/ \E t \in Threads : SearchRun(t)
    \/ \E t \in Threads : SearchFail(t)
    \/ \E t \in Threads : SearchFinally(t)

Spec == Init /\ [][Next]_vars

\* A step of worker thread t.
ThreadStep(t) ==
    \/ IndexBooksDirMissing(t) \/ IndexCheckDir(t) \/ IndexMakedirs(t)
    \/ IndexOpenDir(t) \/ IndexCreateIn(t) \/ IndexWriter(t) \/ IndexList(t)
    \/ IndexListFail(t) \/ IndexDocOk(t) \/ IndexDocSkip(t)
    \/ IndexDocError(t) \/ IndexCommit(t) \/ IndexCommitFail(t)
    \/ IndexFinally(t)
    \/ SearchOpenMissing(t) \/ SearchOpenDir(t) \/ SearcherOpen(t)
    \/ SearchRun(t) \/ SearchFail(t) \/ SearchFinally(t)

\* The state after the user's last start: the threads at `pcs`, thread 1
\* searching for q if it is a search thread, the index directory as given.
FairStart(pcs, dir, toc, docs, q) ==
    /\ dirExists = dir
    /\ indexExists = toc
    /\ committed = docs
    /\ writelock = 0
    /\ lastUpdate = [p \in Paths |->
                        IF \E i \in 1..Len(docs) : docs[i].path = p
                        THEN (CHOOSE d \in SeqToSet(docs) : d.path = p).content
                        ELSE NoUpdate]
    /\ index_button = "disabled"
    /\ search_button = "disabled"
    /\ indexRuns = MaxIndexRuns
    /\ searches = MaxSearches
    /\ gui_status = Msg(IF q = <<>> THEN "starting_indexing" ELSE "starting_search")
    /\ pendingEnable = 0
    /\ pc = pcs
    /\ files = [t \in Threads |-> <<>>]
    /\ idx = [t \in Threads |-> 0]
    /\ indexed_files = [t \in Threads |-> 0]
    /\ error_files = [t \in Threads |-> 0]
    /\ writer_base = [t \in Threads |-> <<>>]
    /\ writer_deleted = [t \in Threads |-> {}]
    /\ writer_pool = [t \in Threads |-> <<>>]
    /\ status = [t \in Threads |-> NoStatus]
    /\ raised = [t \in Threads |-> "none"]
    /\ query = [t \in Threads |-> IF t = 1 THEN q ELSE <<>>]
    /\ snapshot = [t \in Threads |-> <<>>]
    /\ callbacks = [t \in Threads |-> 0]
    /\ delivered = [t \in Threads |-> <<>>]

\* The user's last starts.  Either two indexing runs on a fresh index
\* directory: Index clicked, a <Return> search ended and re-enabled the
\* buttons, Index clicked again before the first run took a step.  Or one
\* search, on no index, an empty one, or one that holds a document.
InitFair ==
    \/ FairStart([t \in Threads |-> "ix_start"], FALSE, FALSE, <<>>, <<>>)
    \/ \E e \in Entries :
         /\ strip(e) # <<>>
         /\ \/ FairStart([t \in Threads |-> IF t = 1 THEN "s_open" ELSE "idle"],
                         FALSE, FALSE, <<>>, strip(e))
            \/ FairStart([t \in Threads |-> IF t = 1 THEN "s_open" ELSE "idle"],
                         TRUE, TRUE, <<>>, strip(e))
            \/ \E text \in Texts :
                 FairStart([t \in Threads |-> IF t = 1 THEN "s_open" ELSE "idle"],
                           TRUE, TRUE, <<Document("a.pdf", text)>>, strip(e))

NextFair ==
    \/ ClickSearch
    \/ PressReturn
    \/ enable_buttons
    \/ \E t \in Threads : ThreadStep(t)

\* These runs with the program's scheduling: while a started thread can run,
\* some thread does, and the Tk main loop runs the callbacks root.after has
\* queued.
SpecFair ==
    /\ InitFair /\ [][NextFair]_vars
    /\ WF_vars(enable_buttons)
    /\ WF_vars(\E t \in Threads : ThreadStep(t))

\* The same program with a user who starts one more indexing run.
NextLong == Next \/ StartIndexing(MaxIndexRuns + 1)

SpecLong == Init /\ [][NextLong]_vars

\* ------------------------------------------------- searches of a large index
\* Texts of the files of a larger books directory, each holding "Foxes".
RankTexts == << <<"Foxes">>, <<"Foxes", "Foxes">>, <<"The", "Foxes", "feet">> >>

\* The index an earlier indexing run committed for n files, the text of the
\* i-th file chosen by k.
RankIndex(n, k) ==
    [i \in 1..n |->
        Document(ToString(i) \o ".pdf", RankTexts[1 + ((i * k) % Len(RankTexts))])]

\* The numbers of files: a few, and around the limit of a search.
RankSizes == (0..3) \cup ((SearchLimit - 1)..MaxRankDocs)

\* A search thread has been started on such an index.
InitRank ==
    /\ dirExists = TRUE
    /\ indexExists = TRUE
    /\ \E n \in RankSizes : \E k \in 1..Len(RankTexts) : committed = RankIndex(n, k)
    /\ writelock = 0
    /\ lastUpdate = [p \in Paths |-> NoUpdate]
    /\ index_button = "disabled"
    /\ search_button = "disabled"
    /\ indexRuns = 0
    /\ searches = 1
    /\ gui_status = Msg("starting_search")
    /\ pendingEnable = 0
    /\ pc = [t \in Threads |-> IF t = 1 THEN "s_open" ELSE "idle"]
    /\ files = [t \in Threads |-> <<>>]
    /\ idx = [t \in Threads |-> 0]
    /\ indexed_files = [t \in Threads |-> 0]
    /\ error_files = [t \in Threads |-> 0]
    /\ writer_base = [t \in Threads |-> <<>>]
    /\ writer_deleted = [t \in Threads |-> {}]
    /\ writer_pool = [t \in Threads |-> <<>>]
    /\ status = [t \in Threads |-> NoStatus]
    /\ raised = [t \in Threads |-> "none"]
    /\ \E e \in Entries \cup {<<"feet">>} :
         /\ strip(e) # <<>>
         /\ query = [t \in Threads |-> IF t = 1 THEN strip(e) ELSE <<>>]
    /\ snapshot = [t \in Threads |-> <<>>]
    /\ callbacks = [t \in Threads |-> 0]
    /\ delivered = [t \in Threads |-> <<>>]

NextRank ==
    \/ enable_buttons
    \/ \E t \in Threads : SearchOpenDir(t)
    \/ \E t \in Threads : SearcherOpen(t)
    \/ \E t \in Threads : SearchRun(t)
    \/ \E t \in Threads : SearchFail(t)
    \/ \E t \in Threads : SearchFinally(t)

SpecRank == InitRank /\ [][NextRank]_vars


\* ============================================================ properties
InSession(t) == pc[t] \in {"ix_list", "ix_loop"}

InSearch(t) == pc[t] \in {"s_open", "s_searcher", "s_run"}

EntriesOf(docs, p) == SelectSeq(docs, LAMBDA d : d.path = p)

PathsOf(docs) == {docs[i].path : i \in 1..Len(docs)}

IsCommitStep(t) == InSession(t) /\ status'[t].kind = "complete"

IsFatalStep(t) == InSession(t) /\ status'[t].kind = "fatal"

\* C1: at most one thread is inside a writer session (between ix.writer and
\* commit or cancel), it is the holder of the write lock, and a run that asked
\* for the writer while another held it ended with LockError at once: it has
\* listed no file, staged no document and emitted no status.
C1_OneWriterSession ==
    /\ \A t, u \in Threads : InSession(t) /\ InSession(u) => t = u
    /\ \A t \in Threads : InSession(t) <=> writelock = t
    /\ \A t \in Threads :
         writer_pool[t] # <<>> =>
             InSession(t) \/ (pc[t] = "ix_finally" /\ status[t].kind = "complete")
    /\ \A t \in Threads :
         raised[t] = "LockError" =>
             /\ pc[t] = "ix_finally"
             /\ files[t] = <<>> /\ writer_pool[t] = <<>> /\ writer_deleted[t] = {}
             /\ indexed_files[t] = 0
             /\ status[t] = NoStatus

\* A run has failed on the lock while the holder has documents staged.
C1_Witness ==
    \E t, u \in Threads :
        /\ raised[t] = "LockError"
        /\ InSession(u) /\ writer_pool[u] # <<>>

\* C2: when a fatal error ends a writer session, the session is cancelled and
\* the committed documents are those committed when the session began.
C2_FailedSessionKeepsPrior ==
    [][\A t \in Threads :
          IsFatalStep(t) =>
              /\ writelock' = 0
              /\ writer_pool'[t] = <<>>
              /\ committed' = writer_base[t]]_vars

\* C3: when a search opens its searcher it reads exactly the committed
\* documents of that moment (all of them, and none a writer has only
\* staged); no later step, a commit of another thread included, changes what
\* it reads; and its results are the matches among the documents it read.
C3_SearchSeesOneCommittedSet ==
    [][\A s \in Threads :
          /\ (pc[s] = "s_searcher" /\ pc'[s] = "s_run") =>
                 snapshot'[s] = committed
          /\ (pc[s] = "s_run" /\ pc'[s] # "idle") =>
                 snapshot'[s] = snapshot[s]
          /\ (pc[s] = "s_run" /\ status'[s].kind = "found_results") =>
                 PathsOf(delivered'[s]) =
                     {d.path : d \in {x \in SeqToSet(snapshot[s]) :
                                         Matches(x, ParsedQuery(query[s]))}}]_vars

\* A searcher holds a non-empty list while a writer has documents staged.
C3_Witness ==
    \E s, w \in Threads :
        /\ pc[s] = "s_run" /\ snapshot[s] # <<>>
        /\ InSession(w) /\ writer_pool[w] # <<>>

\* C4: every path holds at most one committed document, and a path some
\* committed session has updated holds exactly one, with the content of its
\* latest committed update.
C4_UpsertReplaces ==
    \A p \in Paths :
        /\ Len(EntriesOf(committed, p)) <= 1
        /\ lastUpdate[p] # NoUpdate =>
               /\ Len(EntriesOf(committed, p)) = 1
               /\ EntriesOf(committed, p)[1].content = lastUpdate[p]

\* C5 as claimed: when the last file of a session had no text, after the
\* commit no document is committed for its path.
C5_SkippedHasNoEntry ==
    [][\A t \in Threads :
          IsCommitStep(t) /\ status[t].kind = "no_text" =>
              EntriesOf(committed', status[t].doc) = <<>>]_vars

\* C5 as amended: a file without text is reported as skipped with its name,
\* counted in error_files and not in indexed_files, and stages nothing; the
\* commit leaves the documents of every file the session did not stage as
\* they were in the list the writer opened on.
C5_SkippedKeepsPriorEntry ==
    [][\A t \in Threads :
          /\ (pc[t] = "ix_loop" /\ status'[t].kind = "no_text"
                /\ idx'[t] # idx[t]) =>
                 /\ status'[t].doc = files[t][idx[t] + 1]
                 /\ indexed_files'[t] = indexed_files[t]
                 /\ error_files'[t] = error_files[t] + 1
                 /\ writer_pool'[t] = writer_pool[t]
                 /\ writer_deleted'[t] = writer_deleted[t]
          /\ IsCommitStep(t) =>
                 \A p \in SeqToSet(files[t]) \ PathsOf(writer_pool[t]) :
                     EntriesOf(committed', p) = EntriesOf(writer_base[t], p)]_vars

\* The last file of a session was skipped and the list the writer opened on
\* holds a document for it.
C5_Witness ==
    \E t \in Threads :
        /\ pc[t] = "ix_loop" /\ idx[t] = Len(files[t])
        /\ status[t].kind = "no_text"
        /\ EntriesOf(writer_base[t], status[t].doc) # <<>>

\* C6: a search that finds no index reports it as an error, gives the empty
\* list to results_callback once, raises nothing and creates no index.
C6_MissingIndex ==
    [][\A t \in Threads :
          (pc[t] = "s_open" /\ ~indexExists /\ pc'[t] # "s_open") =>
              /\ pc'[t] = "s_finally"
              /\ status'[t] = Msg("index_unavailable")
              /\ status'[t].kind \in ErrorKinds
              /\ callbacks'[t] = 1 /\ delivered'[t] = <<>>
              /\ raised'[t] = "none"
              /\ ~indexExists' /\ dirExists' = dirExists
              /\ committed' = committed]_vars

\* A search has ended on a missing index.
C6_Witness ==
    \E t \in Threads :
        /\ pc[t] = "s_finally" /\ status[t].kind = "index_unavailable"
        /\ ~indexExists

\* C7: a failing file is reported with its name and counted, the session
\* keeps its writer and goes on with the next file; the loop is left only at
\* the end of the file list, and a session is cancelled only by a failure
\* outside the per-file step (listing the files, or the commit).
C7_DocFailureDoesNotAbort ==
    [][\A t \in Threads :
          /\ (pc[t] = "ix_loop" /\ status'[t].kind = "error_indexing"
                /\ idx'[t] # idx[t]) =>
                 /\ status'[t].doc = files[t][idx[t] + 1]
                 /\ error_files'[t] = error_files[t] + 1
                 /\ idx'[t] = idx[t] + 1
                 /\ pc'[t] = "ix_loop" /\ writelock' = t
                 /\ writer_pool'[t] = writer_pool[t]
          /\ IsCommitStep(t) => idx[t] = Len(files[t])
          /\ IsFatalStep(t) =>
                 pc[t] = "ix_list" \/ idx[t] = Len(files[t])]_vars

\* A file has failed and the session goes on with the file after it.
C7_Witness ==
    \E t \in Threads :
        /\ pc[t] = "ix_loop" /\ idx[t] < Len(files[t])
        /\ status[t].kind = "error_indexing"
        /\ writelock = t

\* C8 as claimed: a query without terms, a blank search entry included, gives
\* the empty list to results_callback and is not reported as an error.
C8_NoTermsNoError ==
    /\ gui_status.kind \notin ErrorKinds
    /\ \A t \in Threads :
         (status[t].kind = "found_results" /\ ParsedQuery(query[t]) = <<>>) =>
             callbacks[t] = 1 /\ delivered[t] = <<>>

\* C8 as amended: a query that search_index runs to the end and that
\* normalizes to no term gives the empty list to results_callback once, with
\* a status that is no error; a blank search entry starts no search, is
\* reported as an error by start_search_thread and reaches no
\* results_callback.
C8_NoTermsEmptyResult ==
    [][/\ \A t \in Threads :
            (status'[t].kind = "found_results" /\ ParsedQuery(query'[t]) = <<>>) =>
                /\ callbacks'[t] = 1 /\ delivered'[t] = <<>>
                /\ status'[t].kind \notin ErrorKinds
       /\ \A t \in Threads :
            InSearch(t)' => query'[t] # <<>> /\ strip(query'[t]) = query'[t]
       /\ (gui_status'.kind = "enter_query" /\ gui_status.kind # "enter_query") =>
            /\ gui_status'.kind \in ErrorKinds
            /\ pc' = pc /\ callbacks' = callbacks /\ delivered' = delivered]_vars

\* A search for a stop word has run on an index that holds documents.
C8_Witness ==
    \E t \in Threads :
        /\ status[t].kind = "found_results"
        /\ ParsedQuery(query[t]) = <<>>
        /\ snapshot[t] # <<>>

\* The documents of `docs` whose text holds the token w.
Holding(docs, w) ==
    {d \in SeqToSet(docs) :
        \E text \in Texts :
            d.content = normalize_text(text) /\ w \in SeqToSet(text)}

C10_SearchLeavesIndex ==
    [][\A t \in Threads :
          (InSearch(t) /\ pc'[t] # pc[t]) =>
              /\ committed' = committed
              /\ indexExists' = indexExists
              /\ dirExists' = dirExists
              /\ writelock' = writelock]_vars

\* A search has failed on an index that holds documents.
C10_Witness ==
    \E t \in Threads :
        /\ pc[t] = "s_finally" /\ status[t].kind = "search_error"
        /\ committed # <<>>

\* The hits of the search thread s has run, in docnum order.
HitsOf(s) == Scored(search(snapshot[s], ParsedQuery(query[s])), ParsedQuery(query[s]))

Min(a, b) == IF a < b THEN a ELSE b

\* C11: a finished search delivers at most SearchLimit documents, as many as
\* match up to that limit, each once and with its score; no matching document
\* left out scores higher than a delivered one; and the list is in
\* non-increasing order of score.
C11_TopLimitByScore ==
    \A s \in Threads :
        status[s].kind = "found_results" =>
            /\ Len(delivered[s]) <= SearchLimit
            /\ Len(delivered[s]) = Min(Len(HitsOf(s)), SearchLimit)
            /\ \A i, j \in 1..Len(delivered[s]) :
                   i < j => /\ delivered[s][i].score >= delivered[s][j].score
                            /\ delivered[s][i].path # delivered[s][j].path
            /\ \A i \in 1..Len(delivered[s]) :
                   \E h \in 1..Len(HitsOf(s)) :
                       /\ HitsOf(s)[h].doc.path = delivered[s][i].path
                       /\ HitsOf(s)[h].score = delivered[s][i].score
            /\ \A h \in 1..Len(HitsOf(s)) :
                   HitsOf(s)[h].doc.path \notin PathsOf(delivered[s]) =>
                       \A i \in 1..Len(delivered[s]) :
                           delivered[s][i].score >= HitsOf(s)[h].score

\* A search has left out matching documents, and delivered documents of
\* different scores.
C11_Witness ==
    \E s \in Threads :
        /\ status[s].kind = "found_results"
        /\ Len(HitsOf(s)) > SearchLimit
        /\ Len(delivered[s]) = SearchLimit
        /\ delivered[s][1].score > delivered[s][SearchLimit].score

\* C12: the content stored for every committed document is the text
\* extracted from its file, as extracted.
C12_StoresExtractedText ==
    \A i \in 1..Len(committed) : committed[i].content \in Texts

\* C13: at every boundary of the loop over the files, indexed_files +
\* error_files is the number of files processed so far; indexed_files is the
\* number of documents update_document has staged in this session; and when
\* the summary is reported the two counts add up to the number of files found.
C13_CountsExact ==
    \A t \in Threads :
        /\ pc[t] = "ix_loop" =>
               /\ idx[t] <= Len(files[t])
               /\ indexed_files[t] + error_files[t] = idx[t]
               /\ indexed_files[t] = Len(writer_pool[t])
        /\ status[t].kind = "complete" =>
               /\ indexed_files[t] + error_files[t] = Len(files[t])
               /\ indexed_files[t] = Len(writer_pool[t])

\* A summary is reported for a session that indexed a file and skipped or
\* failed on another.
C13_Witness ==
    \E t \in Threads :
        /\ status[t].kind = "complete"
        /\ indexed_files[t] > 0 /\ error_files[t] > 0

\* C14: a writer session ends by a commit or by a cancel, never both: the
\* step that ends it either publishes the session's documents and reports
\* 'Indexing complete', or reports the fatal error, discards what was staged
\* and leaves the committed documents alone; either way the write lock is
\* released and the function returns.  No thread outside a session holds the
\* lock, and 'Indexing complete' is reported by no other step than a commit.
C14_CommitOrCancel ==
    [][\A t \in Threads :
          /\ (InSession(t) /\ ~InSession(t)') =>
                 /\ pc'[t] = "ix_finally"
                 /\ writelock' = 0
                 /\ \/ /\ status'[t].kind = "complete"
                       /\ idx[t] = Len(files[t])
                       /\ committed' = Merge(writer_base[t], writer_deleted[t],
                                              writer_pool[t])
                    \/ /\ status'[t].kind = "fatal"
                       /\ committed' = committed
                       /\ writer_pool'[t] = <<>>
          /\ ~InSession(t)' => writelock' # t
          /\ (status'[t].kind = "complete" /\ status[t].kind # "complete") =>
                 /\ InSession(t)
                 /\ committed' = Merge(writer_base[t], writer_deleted[t],
                                        writer_pool[t])]_vars

\* A session that had staged a document has ended by a cancel.
C14_Witness ==
    \E t \in Threads :
        /\ pc[t] = "ix_finally" /\ status[t].kind = "fatal"
        /\ indexed_files[t] > 0
        /\ writelock = 0

\* C15: at most one worker thread runs at a time, and while one runs the
\* Index and Search buttons are disabled.
C15_OneWorkerAtATime ==
    /\ Cardinality({t \in Threads : pc[t] # "idle"}) <= 1
    /\ (\E t \in Threads : pc[t] # "idle") =>
           index_button = "disabled" /\ search_button = "disabled"

C17_WorkerReenables ==
    /\ [][\A t \in Threads :
             (pc[t] # "idle" /\ pc'[t] = "idle") =>
                 pendingEnable' = pendingEnable + 1]_vars
    /\ (index_button = "disabled" \/ search_button = "disabled")
           ~> (index_button = "normal" /\ search_button = "normal")

\* An indexing thread is ending on an exception that escaped index_pdfs
\* while the buttons are disabled.
C17_Witness ==
    \E t \in Threads :
        /\ pc[t] = "ix_finally" /\ raised[t] # "none"
        /\ index_button = "disabled"

\* C18: a finished search delivers one result for every hit up to the limit,
\* and every result carries a snippet that is not empty: the highlighter's
\* fragment of the document's stored content when it found one, and
\* '[No relevant snippet found]' when it found none.
C18_SnippetOrSentinel ==
    \A s \in Threads :
        status[s].kind = "found_results" =>
            /\ Len(delivered[s]) = Min(Len(HitsOf(s)), SearchLimit)
            /\ \A i \in 1..Len(delivered[s]) :
                   /\ delivered[s][i].highlight # <<>>
                   /\ \E d \in SeqToSet(snapshot[s]) :
                          /\ d.path = delivered[s][i].path
                          /\ delivered[s][i].highlight =
                                 IF highlights(d, ParsedQuery(query[s])) = <<>>
                                 THEN NoSnippet
                                 ELSE highlights(d, ParsedQuery(query[s]))

\* A search has delivered a hit for which the highlighter found no fragment.
C18_Witness ==
    \E s \in Threads :
        /\ status[s].kind = "found_results"
        /\ \E i \in 1..Len(delivered[s]) : delivered[s][i].highlight = NoSnippet

====
